---- MODULE Spec2Model ----
(***************************************************************************)
(* A model of gitshelve.py: the dict-of-dicts cache of a gitshelve (with   *)
(* its '__root__' and '__book__' keys), the gitbook records, and the git   *)
(* repository the shelves commit to (blobs, trees, commits, one branch).   *)
(*                                                                         *)
(* Hashes are modelled by the content they name: a blob name is <<bytes>>, *)
(* a tree name is <<entries>>, where entries maps each path segment to     *)
(* <<"blob", name>> or <<"tree", name>> (git mktree sorts its input, so a  *)
(* tree's name depends on the set of entries only).  A commit name is the  *)
(* index of the commit object in the repository.                           *)
(***************************************************************************)
EXTENDS Integers, Sequences, FiniteSets, TLC

VARIABLES store, commits, branch, last, steps

vars == <<store, commits, branch, last, steps>>

----------------------------------------------------------------------------
(* Bounds and input sets *)

MaxSteps == 5

Stores == {1, 2}

\* Python's None (gitbook.data / the value None passed by a caller)
NoneV == "None"

\* a key that is not in a dict, a name that is None
NoHash == <<>>

\* values passed to put and named in get: None, two ASCII strings, and a
\* byte string that is not valid UTF-8
Values == {NoneV, "x", "y", "bin"}

\* values passed to __setitem__
SetValues == {NoneV, "x", "y"}

\* paths, split at os.sep: those passed to __setitem__, to __delitem__ and
\* to __getitem__.  <<"p", "hx">> is where put stores the value "x".
SetPaths == {<<"a">>, <<"a", "b", "c">>, <<"a", "b", "d">>}

DelPaths == {<<"a">>, <<"a", "b">>, <<"a", "b", "c">>, <<"p", "hx">>}

GetPaths == {<<"a">>, <<"a", "b">>, <<"a", "b", "c">>, <<"a", "b", "d">>}

\* the values of the shelf used as a blob store
PutValues == {"x", "y"}

\* the inputs of the two shelves that write to one branch
TwoPaths == {<<"a">>}

\* the paths of the shelves whose git commands may fail: a Record at the top
\* and one in a container
FlakyPaths == {<<"a">>, <<"d", "c">>}

TwoValues == {"x", "y"}

----------------------------------------------------------------------------
(* git plumbing *)

\* what git reads on stdin for input=data (None: nothing is written)
StdinBytes(data) == IF data = NoneV THEN "" ELSE data

\* unicode(out, "utf-8") succeeds
Utf8Valid(bytes) == bytes # "bin"

\* git hash-object -w --stdin
make_blob(data) == <<StdinBytes(data)>>

\* '%s/%s' % (name[:2], name[2:]) for the name of a blob: "x" and "y" hash
\* into the same two-character directory
HashPath(name) ==
    CASE name = <<"x">> -> <<"p", "hx">>
      [] name = <<"y">> -> <<"p", "hy">>
      [] name = <<"bin">> -> <<"q", "hbin">>
      [] OTHER -> <<"e", "h">>

----------------------------------------------------------------------------
(* the cache: a dict is [root, book, kids] *)

NoKids == [k \in {} |-> 0]

EmptyDict == [root |-> NoHash, book |-> NoHash, kids |-> NoKids]

\* gitbook.__init__
NewBook(name) == [name |-> name, data |-> NoneV, dirty |-> FALSE]

LeafDict(book) == [root |-> NoHash, book |-> <<book>>, kids |-> NoKids]

\* len(d) of a dict d
DictLen(d) ==
    (IF d.root # NoHash THEN 1 ELSE 0) + (IF d.book # NoHash THEN 1 ELSE 0)
    + Cardinality(DOMAIN d.kids)

\* len(obj.keys()) == 1 and '__book__' in obj
IsLeaf(d) == d.book # NoHash /\ DictLen(d) = 1

WithKid(d, k, n) ==
    [d EXCEPT !.kids = [x \in (DOMAIN d.kids) \cup {k} |->
                            IF x = k THEN n ELSE d.kids[x]]]

WithoutKid(d, k) ==
    [d EXCEPT !.kids = [x \in (DOMAIN d.kids) \ {k} |-> d.kids[x]]]

RECURSIVE HasPath(_, _)
\* get_tree(path) raises no KeyError
HasPath(d, path) ==
    \/ path = <<>>
    \/ /\ Head(path) \in DOMAIN d.kids
       /\ HasPath(d.kids[Head(path)], Tail(path))

RECURSIVE get_tree(_, _)
\* get_tree(path), where HasPath(d, path)
get_tree(d, path) ==
    IF path = <<>> THEN d ELSE get_tree(d.kids[Head(path)], Tail(path))

\* the dict get_tree(path, make_dirs=True) returns
get_tree_mk(d, path) == IF HasPath(d, path) THEN get_tree(d, path) ELSE EmptyDict

RECURSIVE put_tree(_, _, _)
\* the cache after get_tree(path, make_dirs=True) and the update of the dict
\* it returned to n
put_tree(d, path, n) ==
    IF path = <<>> THEN n
    ELSE LET k == Head(path)
             sub == IF k \in DOMAIN d.kids THEN d.kids[k] ELSE EmptyDict
         IN  WithKid(d, k, put_tree(sub, Tail(path), n))

----------------------------------------------------------------------------
(* gitbook *)

\* gitbook.set_data
set_data(book, data) ==
    IF data # book.data
    THEN [name |-> NoHash, data |-> data, dirty |-> TRUE]
    ELSE book

\* gitbook.get_data: [exc, ret, book]; the blob is read and decoded when the
\* data is None
get_data(book) ==
    IF book.data # NoneV
    THEN [exc |-> "ok", ret |-> <<book.data>>, book |-> book]
    ELSE IF book.name = NoHash
    THEN [exc |-> "AssertionError", ret |-> <<>>, book |-> book]
    ELSE IF ~Utf8Valid(book.name[1])
    THEN [exc |-> "UnicodeDecodeError", ret |-> <<>>, book |-> book]
    ELSE [exc |-> "ok", ret |-> <<book.name[1]>>,
          book |-> [book EXCEPT !.data = book.name[1]]]

----------------------------------------------------------------------------
(* the path-addressed handlers, as functions of the cache self.objects *)

\* gitshelve.__setitem__
setitem(objects, path, data) ==
    LET d  == get_tree_mk(objects, path)
        d1 == IF d.book = NoHash THEN LeafDict(NewBook(NoHash)) ELSE d
    IN  put_tree(objects, path,
                 [d1 EXCEPT !.book = <<set_data(d1.book[1], data)>>])

\* gitshelve.__getitem__: [exc, ret, objects]
getitem(objects, path) ==
    IF ~HasPath(objects, path)
    THEN [exc |-> "KeyError", ret |-> <<>>, objects |-> objects]
    ELSE LET d == get_tree(objects, path) IN
         IF d.book = NoHash
         THEN [exc |-> "KeyError", ret |-> <<>>, objects |-> objects]
         ELSE LET r == get_data(d.book[1]) IN
              [exc |-> r.exc, ret |-> r.ret,
               objects |-> put_tree(objects, path, [d EXCEPT !.book = <<r.book>>])]

\* gitshelve.put: [ret, objects]
put(objects, data) ==
    LET name == make_blob(data)
        book == [name |-> name, data |-> data, dirty |-> FALSE]
    IN  [ret |-> name, objects |-> put_tree(objects, HashPath(name), LeafDict(book))]

\* del objects['__root__'] if it is there
DelRoot(d) == [d EXCEPT !.root = NoHash]

\* the loop "for tree in objects: ... del objects[tree]['__root__']" of
\* prune_tree, run for the keys in ks
DelKidRoots(d, ks) ==
    [d EXCEPT !.kids = [x \in DOMAIN d.kids |->
                           IF x \in ks THEN DelRoot(d.kids[x]) ELSE d.kids[x]]]

\* prune_tree, lines 477-482: objects has lost its '__root__'; the loop over
\* its keys raises TypeError at '__book__' (a gitbook is no container), after
\* it has visited the keys that come before it in the dict's order
PruneInvalidate(objects) ==
    IF objects.book = NoHash
    THEN {[exc |-> "ok", ret |-> 3, dirtied |-> TRUE,
           d |-> DelKidRoots(DelRoot(objects), DOMAIN objects.kids)]}
    ELSE {[exc |-> "TypeError", ret |-> 0, dirtied |-> TRUE,
           d |-> DelKidRoots(DelRoot(objects), ks)] : ks \in SUBSET DOMAIN objects.kids}

\* a deletion that leaves the key in place
PruneDeleteKeeps(objects, k) ==
    [exc |-> "ok", ret |-> DictLen(objects.kids[k]) - 1, dirtied |-> TRUE,
     d |-> objects]

\* prune_tree, lines 483-486
PruneDelete(objects, k) ==
    [exc |-> "ok", ret |-> DictLen(objects.kids[k]) - 1, dirtied |-> TRUE,
     d |-> WithoutKid(objects, k)]

\* a failed lookup that has invalidated the dict and marked the shelf dirty
PruneMissingInvalidates(objects) ==
    [exc |-> "KeyError", ret |-> 0, dirtied |-> TRUE, d |-> DelRoot(objects)]

\* prune_tree, lines 472 and 483: objects[paths[0]] raises KeyError before
\* anything was deleted or self.dirty was set
PruneMissing(objects) ==
    [exc |-> "KeyError", ret |-> 0, dirtied |-> FALSE, d |-> objects]

RECURSIVE prune_tree(_, _)
\* gitshelve.prune_tree: the set of outcomes [exc, ret, dirtied, d], d the
\* dict objects afterwards and dirtied whether self.dirty was set
prune_tree(objects, paths) ==
    LET k == Head(paths) IN
    IF k \notin DOMAIN objects.kids
    THEN {PruneMissing(objects)}
    ELSE IF Len(paths) > 1
    THEN UNION {
           IF sub.exc # "ok"
           THEN {[sub EXCEPT !.d = WithKid(objects, k, sub.d)]}
           ELSE LET o1 == WithKid(objects, k, sub.d)
                    has_root == IF sub.d.root # NoHash THEN 1 ELSE 0
                IN  IF sub.ret > 0 \/ DictLen(sub.d) > has_root
                    THEN PruneInvalidate(o1)
                    ELSE {PruneDelete(o1, k)}
           : sub \in prune_tree(objects.kids[k], Tail(paths)) }
    ELSE {PruneDelete(objects, k)}

\* gitshelve.__contains__: [exc, ret]; the KeyError of get_tree is not caught
contains(objects, path) ==
    IF ~HasPath(objects, path)
    THEN [exc |-> "KeyError", ret |-> <<>>]
    ELSE [exc |-> "ok", ret |-> <<IsLeaf(get_tree(objects, path))>>]

RECURSIVE SumOver(_, _)
\* the sum of f[k] for k in S
SumOver(f, S) ==
    IF S = {} THEN 0
    ELSE LET k == CHOOSE x \in S : TRUE IN f[k] + SumOver(f, S \ {k})

RECURSIVE walker(_, _)
\* gitshelve.walker('keys', objects, path), run to its end as keys() does:
\* [exc, keys, n], keys the set of the paths it yielded and n how many it
\* yielded.  The item ('__book__', gitbook) of a dict that is walked fails
\* the assertion of line 502.
walker(objects, path) ==
    LET kids == DOMAIN objects.kids
        R == [k \in kids |->
                IF IsLeaf(objects.kids[k])
                THEN [exc |-> "ok", keys |-> {Append(path, k)}, n |-> 1]
                ELSE walker(objects.kids[k], Append(path, k))]
    IN  IF objects.book # NoHash \/ \E k \in kids : R[k].exc # "ok"
        THEN [exc |-> "AssertionError", keys |-> {}, n |-> 0]
        ELSE [exc |-> "ok", keys |-> UNION {R[k].keys : k \in kids},
              n |-> SumOver([k \in kids |-> R[k].n], kids)]

----------------------------------------------------------------------------
(* make_tree *)

\* git mktree -z fails on an entry "100644 blob None"
MktreeAccepts(entries) == \A k \in DOMAIN entries : entries[k][2] # NoHash

\* a tree named anew on every commit
CachedRootNever(objects, changed) == NoHash

\* make_tree, lines 299-301, 320 and 331: root after the loop, the cached
\* '__root__' unless a child was dirty or a subtree got another name
CachedRoot(objects, changed) == IF changed THEN NoHash ELSE objects.root

RECURSIVE make_tree(_, _, _)
RECURSIVE MakeEntry(_, _, _)

\* make_tree, lines 307-333: one pass of the loop body, for the child obj at
\* path: the set of outcomes [exc, git, d, entry, changed, blobs, trees], d
\* the child afterwards, changed whether the pass sets root to None, blobs
\* and trees the paths for which hash-object -w and mktree were run and
\* returned, git the git command whose non-zero exit made git() raise
\* GitError ("": none).  With flaky, one git command of the pass may exit
\* non-zero (line 314: book.name and book.dirty are then not assigned).
MakeEntry(obj, path, flaky) ==
    IF IsLeaf(obj)
    THEN LET book == obj.book[1]
             name == make_blob(book.data)
         IN  IF book.dirty
             THEN {[exc |-> "ok", git |-> "", entry |-> <<"blob", name>>, changed |-> TRUE,
                    d |-> LeafDict([book EXCEPT !.name = name, !.dirty = FALSE]),
                    blobs |-> {path}, trees |-> {}]}
                  \cup (IF flaky
                        THEN {[exc |-> "GitError", git |-> "hash-object",
                               entry |-> <<"blob", NoHash>>, changed |-> TRUE,
                               d |-> obj, blobs |-> {}, trees |-> {}]}
                        ELSE {})
             ELSE {[exc |-> "ok", git |-> "", entry |-> <<"blob", book.name>>,
                    changed |-> FALSE, d |-> obj, blobs |-> {}, trees |-> {}]}
    ELSE {[exc |-> r.exc, git |-> r.git, entry |-> <<"tree", r.name>>,
           changed |-> r.name # obj.root,
           d |-> r.d, blobs |-> r.blobs, trees |-> r.trees]
          : r \in make_tree(obj, path, flaky)}

\* gitshelve.make_tree: the set of outcomes [exc, git, d, name, blobs,
\* trees], d the dict objects afterwards.  objects.keys() has the dict's
\* order, which is arbitrary: a pass that raises has run the loop body for
\* any subset of the other children first.  A '__book__' key beside other
\* keys fails the assertion of line 308.  With flaky, one git command may
\* exit non-zero: when it is the mktree of line 336, objects['__root__'] is
\* not assigned and keeps the value it had.
make_tree(objects, path, flaky) ==
    LET kids  == DOMAIN objects.kids
        R     == [k \in kids |-> MakeEntry(objects.kids[k], Append(path, k), flaky)]
        okKids == {k \in kids : \E r \in R[k] : r.exc = "ok"}
        done  == [k \in okKids |-> CHOOSE r \in R[k] : r.exc = "ok"]
        After(B, f, fd) ==
            [objects EXCEPT !.kids = [k \in kids |->
                IF k \in B THEN done[k].d
                ELSE IF k = f THEN fd ELSE objects.kids[k]]]
        BlobsOf(B) == UNION {done[k].blobs : k \in B}
        TreesOf(B) == UNION {done[k].trees : k \in B}
        RaisedAt(f) ==
            UNION {{[exc |-> r.exc, git |-> r.git, name |-> NoHash, d |-> After(B, f, r.d),
                     blobs |-> BlobsOf(B) \cup r.blobs,
                     trees |-> TreesOf(B) \cup r.trees]
                    : B \in SUBSET (okKids \ {f})}
                   : r \in {x \in R[f] : x.exc # "ok"}}
        Raised ==
            UNION {RaisedAt(f) : f \in kids}
            \cup (IF objects.book = NoHash THEN {}
                  ELSE {[exc |-> "AssertionError", git |-> "", name |-> NoHash,
                         d |-> After(B, "", objects), blobs |-> BlobsOf(B),
                         trees |-> TreesOf(B)] : B \in SUBSET okKids})
        d1      == After(kids, "", objects)
        entries == [k \in kids |-> done[k].entry]
        root    == CachedRoot(objects, \E k \in kids : done[k].changed)
        MktreeFailed ==
            [exc |-> "GitError", git |-> "mktree", name |-> NoHash, d |-> d1,
             blobs |-> BlobsOf(kids), trees |-> TreesOf(kids)]
        Completed ==
            IF root # NoHash
            THEN {[exc |-> "ok", git |-> "", name |-> root, d |-> d1,
                   blobs |-> BlobsOf(kids), trees |-> TreesOf(kids)]}
            ELSE IF MktreeAccepts(entries)
            THEN {[exc |-> "ok", git |-> "", name |-> <<entries>>,
                   d |-> [d1 EXCEPT !.root = <<entries>>],
                   blobs |-> BlobsOf(kids), trees |-> TreesOf(kids) \cup {path}]}
                 \cup (IF flaky THEN {MktreeFailed} ELSE {})
            ELSE {MktreeFailed}
    IN  Raised \cup (IF okKids = kids /\ objects.book = NoHash THEN Completed ELSE {})

RECURSIVE read_tree(_)
\* read_repository, lines 244-277: the dict built from the entries git
\* ls-tree -r -t lists below a tree; a tree entry sets '__root__', a blob
\* entry a gitbook that holds the blob's name and no data
read_tree(entries) ==
    [root |-> NoHash, book |-> NoHash,
     kids |-> [k \in DOMAIN entries |->
                 IF entries[k][1] = "blob"
                 THEN LeafDict(NewBook(entries[k][2]))
                 ELSE [read_tree(entries[k][2][1]) EXCEPT !.root = entries[k][2]]]]

----------------------------------------------------------------------------
(* the shelves and the repository *)

\* what an operation did: the last call, who made it, its arguments, the
\* exception it raised ("ok": none), what it returned, and the paths for
\* which it ran git hash-object -w and git mktree; dirty0 is self.dirty when
\* the call began; phase is 1 when the call came right after a commit of the
\* same shelf that returned, 2 when it came right after a __setitem__ of
\* phase 1, and 0 otherwise; made[t] is the set of the commits that a commit
\* of shelf t has returned so far; git is the git command whose non-zero
\* exit made the call raise GitError ("": none)
Obs(op, s, path, val, exc, ret, blobs, trees) ==
    [op |-> op, s |-> s, path |-> path, val |-> val, exc |-> exc, ret |-> ret,
     blobs |-> blobs, trees |-> trees, dirty0 |-> store[s].dirty, made |-> last.made,
     git |-> "",
     phase |-> IF last.s # s THEN 0
               ELSE IF last.op = "commit" /\ last.exc = "ok" THEN 1
               ELSE IF last.op = "set" /\ last.phase = 1 THEN 2
               ELSE 0]

\* gitshelve.__init__ / init_data with keep_history at its default, in a
\* repository without the branch
Init ==
    /\ store = [s \in Stores |-> [head |-> 0, dirty |-> FALSE, objects |-> EmptyDict,
                                  keep_history |-> TRUE]]
    /\ commits = <<>>
    /\ branch = 0
    /\ last = [op |-> "init", s |-> 0, path |-> <<>>, val |-> NoneV, exc |-> "ok",
               ret |-> <<>>, blobs |-> {}, trees |-> {}, dirty0 |-> FALSE, phase |-> 0,
               made |-> [s \in Stores |-> {}], git |-> ""]
    /\ steps = 0

\* gitshelve.__init__ of two shelves that were given the same keep_history,
\* True or False
InitHist ==
    /\ \E h \in BOOLEAN :
         store = [s \in Stores |-> [head |-> 0, dirty |-> FALSE, objects |-> EmptyDict,
                                    keep_history |-> h]]
    /\ commits = <<>>
    /\ branch = 0
    /\ last = [op |-> "init", s |-> 0, path |-> <<>>, val |-> NoneV, exc |-> "ok",
               ret |-> <<>>, blobs |-> {}, trees |-> {}, dirty0 |-> FALSE, phase |-> 0,
               made |-> [s \in Stores |-> {}], git |-> ""]
    /\ steps = 0

Step == steps < MaxSteps /\ steps' = steps + 1

\* shelf[path] = data
SetItem(s, path, data) ==
    /\ Step
    /\ store' = [store EXCEPT ![s].objects = setitem(@, path, data), ![s].dirty = TRUE]
    /\ last' = Obs("set", s, path, data, "ok", <<>>, {}, {})
    /\ UNCHANGED <<commits, branch>>

\* shelf[path]
GetItem(s, path) ==
    /\ Step
    /\ LET r == getitem(store[s].objects, path) IN
       /\ store' = [store EXCEPT ![s].objects = r.objects]
       /\ last' = Obs("get", s, path, NoneV, r.exc, r.ret, {}, {})
    /\ UNCHANGED <<commits, branch>>

\* gitshelve.get(key), key the name of the blob of data
Get(s, data) ==
    /\ Step
    /\ LET r == getitem(store[s].objects, HashPath(make_blob(data))) IN
       /\ store' = [store EXCEPT ![s].objects = r.objects]
       /\ last' = Obs("getkey", s, HashPath(make_blob(data)), data, r.exc, r.ret, {}, {})
    /\ UNCHANGED <<commits, branch>>

\* gitshelve.put(data)
Put(s, data) ==
    /\ Step
    /\ LET r == put(store[s].objects, data) IN
       /\ store' = [store EXCEPT ![s].objects = r.objects, ![s].dirty = TRUE]
       /\ last' = Obs("put", s, HashPath(r.ret), data, "ok", <<r.ret>>,
                     {HashPath(r.ret)}, {})
    /\ UNCHANGED <<commits, branch>>

\* shelf.keys()
Keys(s) ==
    /\ Step
    /\ LET r == walker(store[s].objects, <<>>) IN
       last' = Obs("keys", s, <<>>, NoneV, r.exc, <<r.keys, r.n>>, {}, {})
    /\ UNCHANGED <<store, commits, branch>>

\* path in shelf
Contains(s, path) ==
    /\ Step
    /\ LET r == contains(store[s].objects, path) IN
       last' = Obs("contains", s, path, NoneV, r.exc, r.ret, {}, {})
    /\ UNCHANGED <<store, commits, branch>>

\* del shelf[path]
DelItem(s, path) ==
    /\ Step
    /\ \E r \in prune_tree(store[s].objects, path) :
         /\ store' = [store EXCEPT ![s].objects = r.d,
                                   ![s].dirty = IF r.dirtied THEN TRUE ELSE @]
         /\ last' = Obs("del", s, path, NoneV, r.exc, <<>>, {}, {})
    /\ UNCHANGED <<commits, branch>>

\* a commit that leaves the shelf dirty
SyncedStaysDirty(st, d, name) == [st EXCEPT !.objects = d, !.head = name]

\* a commit that does not record the name it wrote
SyncedKeepsHead(st, d, name) == [st EXCEPT !.objects = d, !.dirty = FALSE]

\* update_head, line 232, and commit, line 369: the shelf after the commit
\* name was written and the branch moved to it
Synced(st, d, name) == [st EXCEPT !.objects = d, !.head = name, !.dirty = FALSE]

\* gitshelve.commit while self.dirty is false
CommitClean(s) ==
    /\ Step
    /\ ~store[s].dirty
    /\ last' = Obs("commit", s, <<>>, NoneV, "ok", <<store[s].head>>, {}, {})
    /\ UNCHANGED <<store, commits, branch>>

\* a commit that raised and yet left the shelf clean
AbortedClean(st, d) == [st EXCEPT !.objects = d, !.dirty = FALSE]

\* commit, lines 364-369, and update_head, lines 227-232: the shelf after an
\* exception left commit before self.head and self.dirty were assigned; d
\* is the cache as make_tree left it
Aborted(st, d) == [st EXCEPT !.objects = d]

\* gitshelve.commit while self.dirty is true: make_tree, then make_commit
\* (git commit-tree, then update_head: git update-ref with the old value
\* self.head when self.head is set, without an old value otherwise)
CommitDirty(s) ==
    /\ Step
    /\ store[s].dirty
    /\ \E r \in make_tree(store[s].objects, <<>>, FALSE) :
         LET head == store[s].head
             name == Len(commits) + 1
             parent == IF head # 0 /\ store[s].keep_history THEN head ELSE 0
         IN
         \/ /\ r.exc # "ok"
            /\ store' = [store EXCEPT ![s] = Aborted(@, r.d)]
            /\ last' = [Obs("commit", s, <<>>, NoneV, r.exc, <<>>, r.blobs, r.trees)
                         EXCEPT !.git = r.git]
            /\ UNCHANGED <<commits, branch>>
         \/ /\ r.exc = "ok"
            /\ commits' = Append(commits, [tree |-> r.name, parent |-> parent])
            /\ IF head # 0 /\ branch # head
               THEN /\ store' = [store EXCEPT ![s] = Aborted(@, r.d)]
                    /\ last' = [Obs("commit", s, <<>>, NoneV, "GitError", <<>>,
                                     r.blobs, r.trees)
                                 EXCEPT !.git = "update-ref"]
                    /\ UNCHANGED branch
               ELSE /\ store' = [store EXCEPT ![s] = Synced(@, r.d, name)]
                    /\ last' = [Obs("commit", s, <<>>, NoneV, "ok", <<name>>,
                                     r.blobs, r.trees)
                                 EXCEPT !.made[s] = @ \cup {name}]
                    /\ branch' = name

\* gitshelve.commit while self.dirty is true and one git command of it
\* exits non-zero for a reason outside the shelf (git() raises GitError):
\* the hash-object of a dirty gitbook or a mktree (make_tree), commit-tree
\* (no commit is written), or update-ref (the commit is written, the branch
\* stays)
CommitGitFails(s) ==
    /\ Step
    /\ store[s].dirty
    /\ LET o      == store[s].objects
           head   == store[s].head
           parent == IF head # 0 /\ store[s].keep_history THEN head ELSE 0
       IN
       \/ \E r \in make_tree(o, <<>>, TRUE) \ make_tree(o, <<>>, FALSE) :
            /\ store' = [store EXCEPT ![s] = Aborted(@, r.d)]
            /\ last' = [Obs("commit", s, <<>>, NoneV, r.exc, <<>>, r.blobs, r.trees)
                         EXCEPT !.git = r.git]
            /\ UNCHANGED <<commits, branch>>
       \/ \E r \in make_tree(o, <<>>, FALSE), cmd \in {"commit-tree", "update-ref"} :
            /\ r.exc = "ok"
            /\ store' = [store EXCEPT ![s] = Aborted(@, r.d)]
            /\ last' = [Obs("commit", s, <<>>, NoneV, "GitError", <<>>, r.blobs, r.trees)
                         EXCEPT !.git = cmd]
            /\ commits' = IF cmd = "update-ref"
                          THEN Append(commits, [tree |-> r.name, parent |-> parent])
                          ELSE commits
            /\ UNCHANGED branch

\* gitshelve.read_repository
Load(s) ==
    /\ Step
    /\ store' = [store EXCEPT ![s].head = branch, ![s].dirty = FALSE,
                              ![s].objects = IF branch = 0 THEN EmptyDict
                                             ELSE read_tree(commits[branch].tree[1])]
    /\ last' = Obs("load", s, <<>>, NoneV, "ok", <<>>, {}, {})
    /\ UNCHANGED <<commits, branch>>

\* gitshelve.read_repository while git rev-parse exits non-zero although the
\* branch exists: the bare except of lines 236-239 sets self.head to None,
\* and read_repository returns with the cache init_data made
LoadGitFails(s) ==
    /\ Step
    /\ branch # 0
    /\ store' = [store EXCEPT ![s].head = 0, ![s].dirty = FALSE,
                              ![s].objects = EmptyDict]
    /\ last' = [Obs("load", s, <<>>, NoneV, "ok", <<>>, {}, {})
                 EXCEPT !.git = "rev-parse"]
    /\ UNCHANGED <<commits, branch>>

\* one shelf and every operation on it
Next ==
    \/ \E path \in SetPaths, data \in SetValues : SetItem(1, path, data)
    \/ \E path \in GetPaths : GetItem(1, path)
    \/ \E data \in Values : Get(1, data)
    \/ \E data \in Values : Put(1, data)
    \/ \E path \in DelPaths : DelItem(1, path)
    \/ CommitClean(1)
    \/ CommitDirty(1)
    \/ Load(1)

Spec == Init /\ [][Next]_vars

\* one shelf used as a blob store: put, get by name, and commit
NextPut ==
    \/ \E data \in PutValues : Put(1, data)
    \/ \E data \in PutValues : Get(1, data)
    \/ CommitClean(1)
    \/ CommitDirty(1)
    \/ Load(1)

SpecPut == Init /\ [][NextPut]_vars

\* two shelves that write to one branch
NextTwo ==
    \E s \in Stores :
        \/ \E path \in TwoPaths, data \in TwoValues : SetItem(s, path, data)
        \/ CommitClean(s)
        \/ CommitDirty(s)
        \/ Load(s)

SpecTwo == Init /\ [][NextTwo]_vars

\* one shelf that is written, committed, loaded and queried
NextQuery ==
    \/ \E path \in SetPaths, data \in SetValues : SetItem(1, path, data)
    \/ \E data \in PutValues : Put(1, data)
    \/ \E path \in DelPaths : DelItem(1, path)
    \/ CommitClean(1)
    \/ CommitDirty(1)
    \/ Load(1)
    \/ \E path \in GetPaths : GetItem(1, path)
    \/ \E path \in GetPaths : Contains(1, path)
    \/ Keys(1)

SpecQuery == Init /\ [][NextQuery]_vars

\* two shelves that write to one branch while git commands may fail
NextFlaky ==
    \E s \in Stores :
        \/ \E path \in FlakyPaths, data \in TwoValues : SetItem(s, path, data)
        \/ CommitClean(s)
        \/ CommitDirty(s)
        \/ CommitGitFails(s)
        \/ Load(s)
        \/ LoadGitFails(s)

SpecFlaky == Init /\ [][NextFlaky]_vars

\* two shelves that write to one branch, with or without history
SpecHist == InitHist /\ [][NextTwo]_vars

----------------------------------------------------------------------------
(* What the claims speak of *)

\* the value a Record stands for: its data, or the blob it names when the
\* data was never read or set
RecordValue(book) ==
    IF book.data # NoneV THEN book.data
    ELSE IF book.name # NoHash THEN book.name[1]
    ELSE NoneV

RECURSIVE CacheLeaves(_, _)
\* the (path, value) pairs of the Records of a cache
CacheLeaves(d, prefix) ==
    UNION {(IF d.kids[k].book # NoHash
            THEN {<<Append(prefix, k), RecordValue(d.kids[k].book[1])>>}
            ELSE {})
           \cup CacheLeaves(d.kids[k], Append(prefix, k))
           : k \in DOMAIN d.kids}

RECURSIVE TreeLeaves(_, _)
\* the (path, bytes) pairs of the blobs of a tree
TreeLeaves(entries, prefix) ==
    UNION {IF entries[k][1] = "blob"
           THEN {<<Append(prefix, k), entries[k][2][1]>>}
           ELSE TreeLeaves(entries[k][2][1], Append(prefix, k))
           : k \in DOMAIN entries}

RECURSIVE EmptyDirs(_, _)
\* the paths of the dicts below d that hold neither a gitbook nor a child
EmptyDirs(d, prefix) ==
    UNION {(IF d.kids[k].book = NoHash /\ DOMAIN d.kids[k].kids = {}
            THEN {Append(prefix, k)} ELSE {})
           \cup EmptyDirs(d.kids[k], Append(prefix, k))
           : k \in DOMAIN d.kids}

\* the cache of a shelf opened on the branch now
Reloaded == IF branch = 0 THEN EmptyDict ELSE read_tree(commits[branch].tree[1])

IsPrefix(p, q) == Len(p) <= Len(q) /\ SubSeq(q, 1, Len(p)) = p

\* every path an operation of the model can name
AllPaths ==
    SetPaths \cup DelPaths \cup GetPaths \cup {HashPath(make_blob(v)) : v \in Values}

\* the last operation was a commit of a modified shelf that returned
Committed == last.op = "commit" /\ last.exc = "ok" /\ last.dirty0

----------------------------------------------------------------------------
(* C1 - C10 *)

\* C1: a commit of a modified shelf that returns has written a snapshot whose
\* (path, value) leaves are exactly the Records of the cache at that moment.
C1_SnapshotIsCache ==
    Committed =>
        TreeLeaves(commits[last.ret[1]].tree[1], <<>>)
            = CacheLeaves(store[last.s].objects, <<>>)

\* C2: a commit that returns right after shelf[path] = v leaves a branch from
\* which a freshly opened shelf reads v at path.
C2_RoundTrip ==
    [][(last.op = "set" /\ last'.op = "commit" /\ last'.s = last.s /\ last'.exc = "ok")
        => LET r == getitem(Reloaded', last.path)
           IN  r.exc = "ok" /\ r.ret = <<last.val>>]_vars

\* C3: right after shelf[path] = v, shelf[path] returns v, from the data the
\* gitbook holds.
C3_ReadYourWrites ==
    last.op = "set" =>
        LET r == getitem(store[last.s].objects, last.path)
        IN  r.exc = "ok" /\ r.ret = <<last.val>> /\ r.objects = store[last.s].objects

\* C4: after a del shelf[path] that returned, shelf[path] and shelf[q] for
\* every q below path raise KeyError.
C4_DeletedIsGone ==
    (last.op = "del" /\ last.exc = "ok") =>
        \A q \in AllPaths :
            IsPrefix(last.path, q)
                => getitem(store[last.s].objects, q).exc = "KeyError"

\* the case of C4: a container was deleted while a Record stays in the cache
C4_Witness ==
    /\ last.op = "del" /\ last.exc = "ok" /\ last.path = <<"a", "b">>
    /\ CacheLeaves(store[last.s].objects, <<>>) # {}

\* C5: after a del shelf[path] that returned, no dict but the root is left
\* without a gitbook and without children.
C5_NoEmptyContainer ==
    (last.op = "del" /\ last.exc = "ok") => EmptyDirs(store[last.s].objects, <<>>) = {}

\* C6: a commit of a shelf that is not dirty returns self.head and changes
\* neither the shelf nor the repository nor the branch; a commit right after
\* a commit that returned returns the same name.
C6_CleanCommitIdempotent ==
    [][\A s \in Stores :
        (last'.op = "commit" /\ last'.s = s) =>
            /\ ~store[s].dirty =>
                 /\ last'.exc = "ok" /\ last'.ret = <<store[s].head>>
                 /\ last'.blobs = {} /\ last'.trees = {}
                 /\ store' = store /\ commits' = commits /\ branch' = branch
            /\ (last.op = "commit" /\ last.s = s /\ last.exc = "ok") =>
                 /\ last'.exc = "ok" /\ last'.ret = last.ret
                 /\ commits' = commits /\ branch' = branch]_vars

\* the case of C6: a second commit in a row, after one that wrote a commit
C6_Witness ==
    /\ last.op = "commit" /\ last.exc = "ok" /\ last.phase = 1 /\ ~last.dirty0
    /\ last.ret # <<0>> /\ branch = last.ret[1]

RECURSIVE DirPaths(_, _)
\* the paths of the dicts below d that are containers (Tree Nodes)
DirPaths(d, prefix) ==
    UNION {(IF IsLeaf(d.kids[k]) THEN {} ELSE {Append(prefix, k)})
           \cup DirPaths(d.kids[k], Append(prefix, k))
           : k \in DOMAIN d.kids}

\* C7: when a commit that returned is followed by one shelf[path] = v and a
\* commit, that commit runs hash-object -w for path only and mktree only for
\* dicts above path; every other container keeps the '__root__' it had.
C7_Incremental ==
    [][(last.op = "set" /\ last.phase = 1 /\ last'.op = "commit" /\ last'.s = last.s)
        => LET o  == store[last.s].objects
               o2 == store'[last.s].objects
               p  == last.path
           IN  /\ last'.blobs \subseteq {p}
               /\ \A t \in last'.trees : IsPrefix(t, p) /\ t # p
               /\ \A q \in DirPaths(o, <<>>) :
                    ~IsPrefix(q, p) =>
                        /\ HasPath(o2, q)
                        /\ get_tree(o, q).root # NoHash
                        /\ get_tree(o2, q).root = get_tree(o, q).root]_vars

\* the case of C7: commit, one __setitem__ below "a", commit, with the
\* container "p" beside "a"
C7_Witness ==
    /\ last.op = "commit" /\ last.exc = "ok" /\ last.phase = 2
    /\ last.blobs = {<<"a", "b", "c">>}
    /\ last.trees = {<<>>, <<"a">>, <<"a", "b">>}
    /\ "p" \in DOMAIN store[last.s].objects.kids
    /\ store[last.s].objects.kids["p"].root # NoHash

\* C8: after a commit of the blob store that returned, a freshly opened shelf
\* returns v from get(name) for every value v the cache holds under its name.
C8_PutPersists ==
    Committed =>
        \A v \in PutValues :
            LET path == HashPath(make_blob(v)) IN
            getitem(store[last.s].objects, path).exc = "ok"
                => LET r == getitem(Reloaded, path)
                   IN  r.exc = "ok" /\ r.ret = <<v>>

\* C9: put(v) returns the name of the blob of v and leaves, at the two-level
\* path of that name, one Record from which get(name) returns v.
C9_PutThenGet ==
    last.op = "put" =>
        LET name == make_blob(last.val)
            o    == store[last.s].objects
            r    == getitem(o, HashPath(name))
        IN  /\ last.ret = <<name>>
            /\ Len(HashPath(name)) = 2
            /\ IsLeaf(get_tree(o, HashPath(name)))
            /\ r.exc = "ok" /\ r.ret = <<last.val>>

\* C10: a commit of a dirty shelf whose self.head (None: no branch yet) is
\* not what the branch points to raises and leaves the branch alone.
C10_NoSilentOverwrite ==
    [][\A s \in Stores :
        (last'.op = "commit" /\ last'.s = s /\ store[s].dirty /\ branch # store[s].head)
            => last'.exc # "ok" /\ branch' = branch]_vars

----------------------------------------------------------------------------
(* C11 - C20 *)

RECURSIVE Ancestors(_, _)
\* the commits on the parent chain of commit c (0: no commit), c included
Ancestors(cs, c) == IF c = 0 THEN {} ELSE {c} \cup Ancestors(cs, cs[c].parent)

\* C11: a commit of a dirty shelf that returns has written a new commit
\* whose parent is self.head as it was (none when self.head was None) when
\* the shelf keeps history, and without a parent when it does not; and the
\* parent chain of the branch holds every commit that a commit of a shelf
\* that keeps history has returned.
C11_HistoryLinkage ==
    [][\A s \in Stores :
        /\ (last'.op = "commit" /\ last'.s = s /\ last'.exc = "ok" /\ store[s].dirty)
             => /\ last'.ret = <<Len(commits) + 1>>
                /\ Len(commits') = Len(commits) + 1
                /\ commits'[Len(commits')].parent
                     = IF store[s].keep_history THEN store[s].head ELSE 0
        /\ store[s].keep_history
             => last'.made[s] \subseteq Ancestors(commits', branch')]_vars

\* C12: when a commit raised and the next call of the shelf is a commit that
\* returns, that commit has written a new commit whose tree holds exactly
\* the (path, value) Records of the cache.
C12_RetrySafe ==
    [][(/\ last.op = "commit" /\ last.exc # "ok"
        /\ last'.op = "commit" /\ last'.s = last.s /\ last'.exc = "ok")
        => /\ last'.ret = <<Len(commits) + 1>>
           /\ Len(commits') = Len(commits) + 1
           /\ TreeLeaves(commits'[Len(commits')].tree[1], <<>>)
                = CacheLeaves(store'[last.s].objects, <<>>)]_vars

\* C13: a commit in which git mktree, git commit-tree or git update-ref
\* exits non-zero raises, and leaves self.dirty true and self.head as it was.
C13_FailedCommitStaysDirty ==
    [][\A s \in Stores :
        (/\ last'.op = "commit" /\ last'.s = s
         /\ last'.git \in {"mktree", "commit-tree", "update-ref"})
        => /\ last'.exc # "ok"
           /\ store[s].dirty /\ store'[s].dirty
           /\ store'[s].head = store[s].head]_vars

\* the case of C13: the update-ref of a shelf that had committed before
\* failed after its trees and its commit were written
C13_Witness ==
    /\ last.op = "commit" /\ last.git = "update-ref"
    /\ store[last.s].head # 0
    /\ last.trees # {}

\* the paths of a cache at which __getitem__ returns a value
Gettable(objects) == {p \in AllPaths : getitem(objects, p).exc = "ok"}

\* C14: keys() returns, and without a duplicate, exactly the paths at which
\* __getitem__ returns a value: as many keys as the cache has Records.
C14_KeysAreGettable ==
    last.op = "keys" =>
        /\ last.exc = "ok"
        /\ last.ret[1] = Gettable(store[last.s].objects)
        /\ last.ret[2] = Cardinality(last.ret[1])
        /\ last.ret[2] = Cardinality(CacheLeaves(store[last.s].objects, <<>>))

\* path runs on below a dict of the cache that holds a gitbook
PastRecord(objects, path) ==
    \E i \in 1..(Len(path) - 1) :
        /\ HasPath(objects, SubSeq(path, 1, i))
        /\ get_tree(objects, SubSeq(path, 1, i)).book # NoHash

RECURSIVE Shape(_)
\* a cache without the data its gitbooks hold: its dicts, their '__root__',
\* and the name and the dirty flag of every gitbook
Shape(d) ==
    [root |-> d.root,
     book |-> IF d.book = NoHash THEN NoHash
              ELSE <<[name |-> d.book[1].name, dirty |-> d.book[1].dirty]>>,
     kids |-> [k \in DOMAIN d.kids |-> Shape(d.kids[k])]]

\* C15: shelf[path] raises KeyError when path is absent from the cache, ends
\* at a dict without a gitbook, or runs on below a dict that holds one; and
\* no shelf[path] adds or removes a dict, changes a '__root__', a gitbook's
\* name or dirty flag, self.dirty or self.head, or writes to the repository.
C15_GetIsReadOnly ==
    [][\A s \in Stores :
        (last'.op = "get" /\ last'.s = s) =>
            LET o == store[s].objects
                p == last'.path
            IN  /\ (\/ ~HasPath(o, p)
                    \/ get_tree(o, p).book = NoHash
                    \/ PastRecord(o, p)) => last'.exc = "KeyError"
                /\ Shape(store'[s].objects) = Shape(o)
                /\ store'[s].dirty = store[s].dirty
                /\ store'[s].head = store[s].head
                /\ commits' = commits /\ branch' = branch]_vars

\* C16: path in shelf raises nothing, and is true exactly when shelf[path]
\* returns a value (false for a dict without a gitbook and for a path that
\* is not in the cache).
C16_ContainsIffGet ==
    last.op = "contains" =>
        /\ last.exc = "ok"
        /\ last.ret = <<getitem(store[last.s].objects, last.path).exc = "ok">>

\* C17: a commit of a dirty shelf that returns has written a new commit and
\* returns its name; the branch and self.head are that name, self.dirty is
\* false, and the root dict and every dict below it that is a container
\* hold a '__root__'.
C17_CommitSyncs ==
    [][\A s \in Stores :
        (last'.op = "commit" /\ last'.s = s /\ last'.exc = "ok" /\ store[s].dirty)
        => LET o == store'[s].objects IN
           /\ Len(commits') = Len(commits) + 1
           /\ last'.ret = <<Len(commits')>>
           /\ branch' = Len(commits')
           /\ store'[s].head = Len(commits')
           /\ ~store'[s].dirty
           /\ o.root # NoHash
           /\ \A q \in DirPaths(o, <<>>) : get_tree(o, q).root # NoHash]_vars

\* the case of C17: a second commit, of a cache with a container below the
\* root
C17_Witness ==
    /\ Committed /\ last.ret[1] >= 2
    /\ DirPaths(store[last.s].objects, <<>>) # {}

\* C18: after a del shelf[path] that returned, no dict that is left on the
\* way from the root (included) to path holds a '__root__'.
C18_DeleteInvalidates ==
    (last.op = "del" /\ last.exc = "ok") =>
        \A i \in 0..(Len(last.path) - 1) :
            LET q == SubSeq(last.path, 1, i)
                o == store[last.s].objects
            IN  HasPath(o, q) => get_tree(o, q).root = NoHash

\* C19: shelf[path] = v, where the Record at path stands for v already,
\* leaves the gitbook's name and dirty flag and self.dirty as they were; and
\* when such a call is the only one since a commit that returned, and v is
\* what that commit holds at path, the next commit returns the same name and
\* writes no commit.
C19_SameValueIsNoOp ==
    [][\A s \in Stores :
        /\ (/\ last'.op = "set" /\ last'.s = s
            /\ HasPath(store[s].objects, last'.path)
            /\ get_tree(store[s].objects, last'.path).book # NoHash
            /\ RecordValue(get_tree(store[s].objects, last'.path).book[1]) = last'.val)
           => LET b  == get_tree(store[s].objects, last'.path).book[1]
                  b2 == get_tree(store'[s].objects, last'.path).book[1]
              IN  /\ b2.name = b.name /\ b2.dirty = b.dirty
                  /\ store'[s].dirty = store[s].dirty
        /\ (/\ last.op = "set" /\ last.s = s /\ last.phase = 1
            /\ store[s].head # 0
            /\ <<last.path, last.val>>
                 \in TreeLeaves(commits[store[s].head].tree[1], <<>>)
            /\ last'.op = "commit" /\ last'.s = s)
           => /\ last'.exc = "ok" /\ last'.ret = <<store[s].head>>
              /\ commits' = commits /\ branch' = branch]_vars

RECURSIVE HoldsBoth(_)
\* some dict of the cache d holds a gitbook and a child
HoldsBoth(d) ==
    \/ d.book # NoHash /\ DOMAIN d.kids # {}
    \/ \E k \in DOMAIN d.kids : HoldsBoth(d.kids[k])

\* C20: no dict of a cache holds both a gitbook and a child, and neither
\* commit (make_tree) nor keys() (walker) raises AssertionError.
C20_ContainerOrRecord ==
    /\ \A s \in Stores : ~HoldsBoth(store[s].objects)
    /\ last.op \in {"commit", "keys"} => last.exc # "AssertionError"

----------------------------------------------------------------------------
(* C21 - C24 *)

\* C21: a shelf whose self.dirty is false holds a '__root__' in its root
\* dict (unless the cache is empty: an empty Store has no root) and in every
\* container below it, and none of its gitbooks is dirty.
C21_CleanMeansHashed ==
    \A s \in Stores :
        ~store[s].dirty =>
            LET o == store[s].objects IN
            /\ o # EmptyDict => o.root # NoHash
            /\ \A q \in DirPaths(o, <<>>) : get_tree(o, q).root # NoHash
            /\ \A q \in AllPaths :
                 (HasPath(o, q) /\ get_tree(o, q).book # NoHash)
                    => ~get_tree(o, q).book[1].dirty

\* C22: every gitbook that is not dirty has a name, whatever value (None
\* included) was passed to __setitem__; no get_data fails 'assert self.name
\* is not None'; and no commit hands git mktree an entry "blob None" (which
\* git mktree rejects).
C22_CleanRecordHasName ==
    /\ \A s \in Stores : \A q \in AllPaths :
         LET o == store[s].objects IN
         (HasPath(o, q) /\ get_tree(o, q).book # NoHash /\ ~get_tree(o, q).book[1].dirty)
            => get_tree(o, q).book[1].name # NoHash
    /\ last.op \in {"get", "getkey"} => last.exc # "AssertionError"
    /\ last.op = "commit" => last.git # "mktree"

\* C23: del shelf[path], where a segment of path is not in the cache, raises
\* KeyError and changes nothing: no dict, no '__root__', no gitbook, neither
\* self.dirty nor self.head, nor the repository.
C23_DeleteMissing ==
    [][\A s \in Stores :
        (last'.op = "del" /\ last'.s = s /\ ~HasPath(store[s].objects, last'.path))
        => /\ last'.exc = "KeyError"
           /\ store'[s] = store[s]
           /\ commits' = commits /\ branch' = branch]_vars

\* the case of C23: the last segment of a path of three is missing in a
\* clean cache whose dicts hold their '__root__'
C23_Witness ==
    /\ last.op = "del" /\ last.exc = "KeyError" /\ Len(last.path) = 3
    /\ HasPath(store[last.s].objects, SubSeq(last.path, 1, 2))
    /\ ~HasPath(store[last.s].objects, last.path)
    /\ get_tree(store[last.s].objects, SubSeq(last.path, 1, 2)).root # NoHash
    /\ store[last.s].objects.root # NoHash
    /\ ~store[last.s].dirty

\* C24: a read_repository in which git rev-parse failed raises; one that
\* returns leaves self.head at the commit the branch points to, and absent
\* only when the branch is absent.
C24_LoadSurfacesFailure ==
    last.op = "load" =>
        /\ last.git = "rev-parse" => last.exc # "ok"
        /\ last.exc = "ok" => store[last.s].head = branch

====
